---- MODULE Spec2Model ----
(***************************************************************************)
(* A model of login-brute.py: the LoginTester class (classifier, attempt   *)
(* executor, sequential and thread-pool schedulers, report, saving of the  *)
(* results) and main as a state machine.                                   *)
(*                                                                         *)
(*   Spec            run_tests in both modes                               *)
(*   SpecLive        run_tests under fair scheduling, every call ending    *)
(*   SpecSave        main as a whole: run, report, save                    *)
(*   SpecReport      generate_report and save_results on any result list   *)
(*   SpecClassifier  one attempt against every response and configuration  *)
(*                                                                         *)
(* Python values are modelled as follows.                                  *)
(*   - a str is a sequence of one-character strings;                       *)
(*   - an Optional value is <<>> (None) or <<v>> (the value v);            *)
(*   - a dict is a TLA+ record, its DOMAIN being the dict's keys.          *)
(***************************************************************************)
EXTENDS Integers, Sequences, FiniteSets, TLC

VARIABLES
    usernames,      \* run_tests argument: the usernames, in order
    passwords,      \* run_tests argument: the passwords, in order
    parallel,       \* run_tests argument: the mode flag
    cfg,            \* LoginTester fields read by the run (indicators, max_workers)
    endpoint,       \* environment: what one requests.post call may end with
    pc,             \* position of the main thread
    test_combinations, \* local of run_tests
    i,              \* loop index: enumerate(..., 1) / next pair to submit
    results,        \* local list `results` of _run_sequential / _run_parallel
    queue,          \* thread pool work queue: submitted, not yet started (FIFO)
    inflight,       \* attempts whose requests.post has started and not ended
    future,         \* per submitted attempt: None, or the finished call's outcome
    snapshot,       \* as_completed: futures found finished on entry, not yet yielded
    notified,       \* as_completed: futures finished since, oldest first, not yet yielded
    collected,      \* attempts in the order their outcome was appended to results
    served,         \* per attempt: None, or what the endpoint did for it
    sleeps,         \* number of time.sleep(self.delay) calls so far
    returned,       \* None, or the list run_tests returned
    calls,          \* per attempt: number of requests.post calls started for it
    lateOrder,      \* attempts that finished after as_completed was entered, in order
    entered,        \* the futures as_completed found finished when it was entered
    report,         \* None, or what generate_report printed
    output,         \* None, or args.output as save_results received it
    saved           \* None, or how save_results ended and what it wrote

vars == <<usernames, passwords, parallel, cfg, endpoint, pc, test_combinations,
          i, results, queue, inflight, future, snapshot, notified,
          collected, served, sleeps, returned, calls, lateOrder, entered,
          report, output, saved>>

\* The history kept of the scheduling, and the state of main after the run.
historyVars == <<calls, lateOrder, entered>>
reportVars == <<report, output, saved>>

(***************************************************************************)
(* Bounds of the model.                                                    *)
(***************************************************************************)
MaxUsers == 2
MaxPasswords == 2
MaxPairs == 4
MaxWorkers == 2
MaxIndicatorLen == 2
MaxBodyLen == 3

(***************************************************************************)
(* Python values.                                                          *)
(***************************************************************************)
None == <<>>
Some(v) == <<v>>

Chars == {"s", "f"}

\* All str values of length at most n over Chars.
Strs(n) == UNION {[1..k -> Chars] : k \in 0..n}

\* Variant: `x is not None`, under which "" counts as given.
IsNotNone(opt) == opt # None

\* bool(x) for an Optional[str]: None and "" are falsy.
Truthy(opt) == opt # None /\ opt[1] # <<>>

\* `s in t` for two str values: s occurs as a contiguous substring of t.
IsSubstring(s, t) ==
    \E k \in 0..(Len(t) - Len(s)) : SubSeq(t, k + 1, k + Len(s)) = s

StatusOK == 200

(***************************************************************************)
(* LoginTester._is_successful_login                                        *)
(***************************************************************************)
\* Variant: the failure indicator is looked at first.
FailureIndicatorFirst(config, response) ==
    IF Truthy(config.failure_indicator)
       /\ IsSubstring(config.failure_indicator[1], response.text)
    THEN FALSE
    ELSE IF Truthy(config.success_indicator)
            /\ IsSubstring(config.success_indicator[1], response.text)
    THEN TRUE
    ELSE response.status_code = StatusOK

\* Variant: every 2xx status counts as a success.
Any2xxIsSuccess(config, response) ==
    IF Truthy(config.success_indicator)
       /\ IsSubstring(config.success_indicator[1], response.text)
    THEN TRUE
    ELSE IF Truthy(config.failure_indicator)
            /\ IsSubstring(config.failure_indicator[1], response.text)
    THEN FALSE
    ELSE response.status_code \in 200..299

is_successful_login(config, response) ==
    IF Truthy(config.success_indicator)
       /\ IsSubstring(config.success_indicator[1], response.text)
    THEN TRUE
    ELSE IF Truthy(config.failure_indicator)
            /\ IsSubstring(config.failure_indicator[1], response.text)
    THEN FALSE
    ELSE IF response.status_code = StatusOK
    THEN TRUE
    ELSE FALSE

(***************************************************************************)
(* What one requests.post call may end with: a response, a transport       *)
(* failure (a RequestException) or any other exception raised by the call. *)
(***************************************************************************)
Response(status, text) == [kind |-> "response", status_code |-> status, text |-> text]
TransportFailure(msg) == [kind |-> "transport", msg |-> msg]
Fault(msg) == [kind |-> "fault", msg |-> msg]

\* time.time() - start_time, rounded: one representative duration.
Elapsed == "0.012"

\* The outcome of a call: a returned value or a raised exception.
Returns(v) == [raised |-> FALSE, value |-> v]
Raises(msg) == [raised |-> TRUE, exc |-> msg]

(***************************************************************************)
(* LoginTester.test_login                                                  *)
(***************************************************************************)
InitialResult(username, password) ==
    [username |-> username, password |-> password, success |-> FALSE,
     status_code |-> None, response_time |-> None, error |-> None]

\* Variant: the except clause drops the exception text.
TestLoginSwallowsError(config, username, password, b) ==
    CASE b.kind = "response" ->
           Returns([status_code |-> Some(b.status_code),
                    response_time |-> Some(Elapsed),
                    success |-> is_successful_login(config, b),
                    response_length |-> Len(b.text)]
                   @@ InitialResult(username, password))
      [] b.kind = "transport" -> Returns(InitialResult(username, password))
      [] b.kind = "fault" -> Raises(b.msg)

\* Variant: no except clause, a transport failure leaves test_login.
TestLoginTransportRaises(config, username, password, b) ==
    CASE b.kind = "response" ->
           Returns([status_code |-> Some(b.status_code),
                    response_time |-> Some(Elapsed),
                    success |-> is_successful_login(config, b),
                    response_length |-> Len(b.text)]
                   @@ InitialResult(username, password))
      [] b.kind = "transport" -> Raises(b.msg)
      [] b.kind = "fault" -> Raises(b.msg)

test_login(config, username, password, b) ==
    CASE b.kind = "response" ->
           \* result.update({...}): the new keys win, response_length is added
           Returns([status_code |-> Some(b.status_code),
                    response_time |-> Some(Elapsed),
                    success |-> is_successful_login(config, b),
                    response_length |-> Len(b.text)]
                   @@ InitialResult(username, password))
      [] b.kind = "transport" ->
           \* except RequestException as e: result["error"] = str(e)
           Returns([InitialResult(username, password) EXCEPT !.error = Some(b.msg)])
      [] b.kind = "fault" ->
           \* any other exception is not caught here
           Raises(b.msg)

(***************************************************************************)
(* run_tests: the Cartesian product, username-major.                       *)
(***************************************************************************)
\* Variant: the two loops of the comprehension swapped.
PasswordMajor(us, ps) ==
    [k \in 1..(Len(us) * Len(ps)) |->
        <<us[((k - 1) % Len(us)) + 1], ps[((k - 1) \div Len(us)) + 1]>>]

\* Variant: zip(usernames, passwords) instead of the product.
ZippedPairs(us, ps) ==
    [k \in 1..(IF Len(us) < Len(ps) THEN Len(us) ELSE Len(ps)) |-> <<us[k], ps[k]>>]

Combinations(us, ps) ==
    [k \in 1..(Len(us) * Len(ps)) |->
        <<us[((k - 1) \div Len(ps)) + 1], ps[((k - 1) % Len(ps)) + 1]>>]

N == Len(test_combinations)

Pair(j) == test_combinations[j]

(***************************************************************************)
(* Inputs.  Names are interchangeable, so a list starts with the first     *)
(* name; later entries are free, which gives lists with duplicates.        *)
(***************************************************************************)
Users == {"alice", "bob"}
Passwords == {"pw1", "pw2"}

Lists(first, S, n) ==
    {s \in UNION {[1..k -> S] : k \in 0..n} : s = <<>> \/ s[1] = first}

UsernameLists == Lists("alice", Users, MaxUsers)
PasswordLists == Lists("pw1", Passwords, MaxPasswords)

\* The endpoint of the scheduler runs: a page that classifies as a success, a
\* page that classifies as a failure, a transport failure and an unexpected
\* exception.
RunEndpoint ==
    {Response(200, <<>>), Response(200, <<"f">>),
     TransportFailure("timeout"), Fault("internal")}

RunConfigs ==
    [success_indicator : {Some(<<"s">>)},
     failure_indicator : {Some(<<"f">>)},
     max_workers : 1..MaxWorkers]

Statuses == {200, 204, 403}

\* The endpoint of the classifier runs: every status with every body.
ClassifierEndpoint ==
    {Response(st, body) : st \in Statuses, body \in Strs(MaxBodyLen)}

Indicators == {None} \cup {Some(s) : s \in Strs(MaxIndicatorLen)}

ClassifierConfigs ==
    [success_indicator : Indicators,
     failure_indicator : Indicators,
     max_workers : {1}]

(***************************************************************************)
(* Initial states: main() has parsed its arguments and built the tester.   *)
(***************************************************************************)
InitRun ==
    /\ pc = "main"
    /\ test_combinations = <<>>
    /\ i = 1
    /\ results = <<>>
    /\ queue = <<>>
    /\ inflight = {}
    /\ future = <<>>
    /\ snapshot = {}
    /\ notified = <<>>
    /\ collected = <<>>
    /\ served = <<>>
    /\ sleeps = 0
    /\ returned = None
    /\ calls = <<>>
    /\ lateOrder = <<>>
    /\ entered = {}
    /\ report = None
    /\ output = None
    /\ saved = None

Init ==
    /\ usernames \in UsernameLists
    /\ passwords \in PasswordLists
    /\ Len(usernames) * Len(passwords) <= MaxPairs
    /\ parallel \in BOOLEAN
    /\ cfg \in RunConfigs
    /\ endpoint = RunEndpoint
    /\ InitRun

InitClassifier ==
    /\ usernames = <<"alice">>
    /\ passwords = <<"pw1">>
    /\ parallel = FALSE
    /\ cfg \in ClassifierConfigs
    /\ endpoint = ClassifierEndpoint
    /\ InitRun

(***************************************************************************)
(* main: the credential check and the call of run_tests.                   *)
(***************************************************************************)
\* Variant: only the absence of both lists is an error.
BothListsMissing(us, ps) == us = <<>> /\ ps = <<>>

\* not usernames or not passwords
MissingCredentials(us, ps) == us = <<>> \/ ps = <<>>

Main ==
    /\ pc = "main"
    /\ pc' = IF MissingCredentials(usernames, passwords)
             THEN "usage_error"      \* parser.error(...) exits the program
             ELSE "run_tests"
    /\ UNCHANGED <<usernames, passwords, parallel, cfg, endpoint,
                   test_combinations, i, results, queue, inflight, future,
                   snapshot, notified, collected, served, sleeps, returned>>
    /\ UNCHANGED <<historyVars, reportVars>>

RunTests ==
    /\ pc = "run_tests"
    /\ test_combinations' = Combinations(usernames, passwords)
    /\ future' = [j \in 1..Len(Combinations(usernames, passwords)) |-> None]
    /\ served' = [j \in 1..Len(Combinations(usernames, passwords)) |-> None]
    /\ calls' = [j \in 1..Len(Combinations(usernames, passwords)) |-> 0]
    /\ i' = 1
    /\ pc' = IF parallel THEN "submit" ELSE "seq_loop"
    /\ UNCHANGED <<usernames, passwords, parallel, cfg, endpoint, results,
                   queue, inflight, snapshot, notified, collected, sleeps,
                   returned>>
    /\ UNCHANGED <<lateOrder, entered, reportVars>>

(***************************************************************************)
(* _run_sequential                                                         *)
(***************************************************************************)
\* The loop takes the next pair and test_login starts its requests.post.
SeqCall ==
    /\ pc = "seq_loop"
    /\ i <= N
    /\ inflight' = inflight \cup {i}
    /\ calls' = [calls EXCEPT ![i] = @ + 1]
    /\ pc' = "seq_call"
    /\ UNCHANGED <<usernames, passwords, parallel, cfg, endpoint,
                   test_combinations, i, results, queue, future, snapshot,
                   notified, collected, served, sleeps, returned>>
    /\ UNCHANGED <<lateOrder, entered, reportVars>>

\* Variant: an attempt that did not succeed is made again.
RetryUnlessSuccess(n) ==
    IF ~results'[Len(results')].success /\ calls[i] < 2
    THEN "seq_loop"
    ELSE IF i < n THEN "seq_sleep" ELSE "seq_next"

\* Variant: the sleep is not guarded by i < len(test_combinations).
SleepAfterEveryAttempt(n) == "seq_sleep"

SeqAfterAttempt(n) == IF i < n THEN "seq_sleep" ELSE "seq_next"

\* The call ends; test_login returns (or raises) and the loop body goes on.
SeqComplete ==
    /\ pc = "seq_call"
    /\ \E b \in endpoint :
         LET out == test_login(cfg, Pair(i)[1], Pair(i)[2], b) IN
           /\ served' = [served EXCEPT ![i] = Some(b)]
           /\ inflight' = inflight \ {i}
           /\ IF out.raised
              THEN /\ pc' = "raised"     \* the exception leaves run_tests
                   /\ UNCHANGED <<results, collected>>
              ELSE /\ results' = Append(results, out.value)
                   /\ collected' = Append(collected, i)
                   /\ pc' = SeqAfterAttempt(N)
    /\ UNCHANGED <<usernames, passwords, parallel, cfg, endpoint,
                   test_combinations, i, queue, future, snapshot, notified,
                   sleeps, returned>>
    /\ UNCHANGED <<historyVars, reportVars>>

\* if i < len(test_combinations): time.sleep(self.delay)
SeqSleep ==
    /\ pc = "seq_sleep"
    /\ sleeps' = sleeps + 1
    /\ i' = i + 1
    /\ pc' = "seq_loop"
    /\ UNCHANGED <<usernames, passwords, parallel, cfg, endpoint,
                   test_combinations, results, queue, inflight, future,
                   snapshot, notified, collected, served, returned>>
    /\ UNCHANGED <<historyVars, reportVars>>

\* The loop is exhausted: return results.
SeqReturn ==
    /\ \/ pc = "seq_next"
       \/ pc = "seq_loop" /\ i > N
    /\ returned' = Some(results)
    /\ pc' = "returned"
    /\ UNCHANGED <<usernames, passwords, parallel, cfg, endpoint,
                   test_combinations, i, results, queue, inflight, future,
                   snapshot, notified, collected, served, sleeps>>
    /\ UNCHANGED <<historyVars, reportVars>>

(***************************************************************************)
(* _run_parallel                                                           *)
(***************************************************************************)
\* executor.submit(self.test_login, username, password) for the next pair.
Submit ==
    /\ pc = "submit"
    /\ i <= N
    /\ queue' = Append(queue, i)
    /\ i' = i + 1
    /\ UNCHANGED <<usernames, passwords, parallel, cfg, endpoint, pc,
                   test_combinations, results, inflight, future, snapshot,
                   notified, collected, served, sleeps, returned>>
    /\ UNCHANGED <<historyVars, reportVars>>

\* Variant: a thread per submitted call.
WorkerAlwaysStarts(config) == TRUE

\* Variant: a worker starts only while a slot beyond its own stays free.
WorkerNeedsSpareSlot(config) == Cardinality(inflight) < config.max_workers - 1

\* The pool runs at most max_workers work items at a time, oldest first.
WorkerMayStart(config) == Cardinality(inflight) < config.max_workers

WorkerStart ==
    /\ queue # <<>>
    /\ WorkerMayStart(cfg)
    /\ inflight' = inflight \cup {Head(queue)}
    /\ calls' = [calls EXCEPT ![Head(queue)] = @ + 1]
    /\ queue' = Tail(queue)
    /\ UNCHANGED <<usernames, passwords, parallel, cfg, endpoint, pc,
                   test_combinations, i, results, future, snapshot,
                   notified, collected, served, sleeps, returned>>
    /\ UNCHANGED <<lateOrder, entered, reportVars>>

\* A worker's test_login call ends; its outcome is stored in the future.
WorkerFinish ==
    /\ parallel
    /\ \E j \in inflight, b \in endpoint :
         /\ future' = [future EXCEPT
                          ![j] = Some(test_login(cfg, Pair(j)[1], Pair(j)[2], b))]
         /\ served' = [served EXCEPT ![j] = Some(b)]
         /\ inflight' = inflight \ {j}
         /\ lateOrder' = IF pc = "collect" THEN Append(lateOrder, j) ELSE lateOrder
         \* the waiter as_completed installed, if any, is told
         /\ notified' = IF pc = "collect" THEN Append(notified, j) ELSE notified
    /\ UNCHANGED <<usernames, passwords, parallel, cfg, endpoint, pc,
                   test_combinations, i, results, queue, snapshot, collected,
                   sleeps, returned>>
    /\ UNCHANGED <<calls, entered, reportVars>>

\* as_completed(future_to_creds) is entered: it first notes the futures that
\* have already finished.
AsCompleted ==
    /\ pc = "submit"
    /\ i > N
    /\ snapshot' = {j \in 1..N : future[j] # None}
    /\ entered' = {j \in 1..N : future[j] # None}
    /\ pc' = "collect"
    /\ UNCHANGED <<usernames, passwords, parallel, cfg, endpoint,
                   test_combinations, i, results, queue, inflight, future,
                   notified, collected, served, sleeps, returned>>
    /\ UNCHANGED <<calls, lateOrder, reportVars>>

\* Variant: the except clause of the loop records no error text.
FallbackWithoutError(username, password, exc) ==
    [username |-> username, password |-> password, success |-> FALSE,
     error |-> None]

\* except Exception as e: the record appended for a future that raised.
FallbackResult(username, password, exc) ==
    [username |-> username, password |-> password, success |-> FALSE,
     error |-> Some(exc)]

\* The record the loop body appends for a yielded future.
Collected(creds, out) ==
    IF out.raised
    THEN FallbackResult(creds[1], creds[2], out.exc)
    ELSE out.value

\* as_completed yields the futures found finished on entry (a set: in no
\* particular order) ...
CollectFinished ==
    /\ pc = "collect"
    /\ \E j \in snapshot :
         /\ results' = Append(results, Collected(Pair(j), future[j][1]))
         /\ collected' = Append(collected, j)
         /\ snapshot' = snapshot \ {j}
    /\ UNCHANGED <<usernames, passwords, parallel, cfg, endpoint, pc,
                   test_combinations, i, queue, inflight, future, notified,
                   served, sleeps, returned>>
    /\ UNCHANGED <<calls, lateOrder, entered, reportVars>>

\* Variant: the future that finished last is yielded first.
NewestNotified(waiting) == waiting[Len(waiting)]

\* The waiter hands the finished futures over oldest first.
NextNotified(waiting) == Head(waiting)

\* ... and then the others in the order they finish.
CollectNotified ==
    /\ pc = "collect"
    /\ snapshot = {}
    /\ notified # <<>>
    /\ results' = Append(results, Collected(Pair(NextNotified(notified)),
                                            future[NextNotified(notified)][1]))
    /\ collected' = Append(collected, NextNotified(notified))
    /\ notified' = SelectSeq(notified, LAMBDA x : x # NextNotified(notified))
    /\ UNCHANGED <<usernames, passwords, parallel, cfg, endpoint, pc,
                   test_combinations, i, queue, inflight, future, snapshot,
                   served, sleeps, returned>>
    /\ UNCHANGED <<calls, lateOrder, entered, reportVars>>

\* Variant: as_completed stops as soon as no finished future is left to yield.
StopsWhenNothingIsReady == snapshot = {} /\ notified = <<>>

\* Variant: the collection stops at the first successful login.
StopsAtFirstSuccess ==
    Len(collected) = N \/ \E k \in 1..Len(results) : results[k].success

\* as_completed is exhausted once it has yielded every future it was given.
AsCompletedExhausted == Len(collected) = N

\* Every future has been yielded: the with block shuts the pool down and
\* _run_parallel returns results.
ParReturn ==
    /\ pc = "collect"
    /\ AsCompletedExhausted
    /\ returned' = Some(results)
    /\ pc' = "returned"
    /\ UNCHANGED <<usernames, passwords, parallel, cfg, endpoint,
                   test_combinations, i, results, queue, inflight, future,
                   snapshot, notified, collected, served, sleeps>>
    /\ UNCHANGED <<historyVars, reportVars>>

(***************************************************************************)
(* LoginTester.generate_report                                             *)
(***************************************************************************)
\* sum(1 for r in results if r.get("success"))
SuccessCount(rs) == Cardinality({k \in 1..Len(rs) : rs[k].success})

\* f"{successful/total*100:.1f}": the percentage in tenths, rounded to the
\* nearest tenth (no total within the bounds gives a tie).
RateTenths(successful, total) == (2000 * successful + total) \div (2 * total)

\* The pairs printed under "Successful login credentials:", in printing order.
SuccessfulPairs(rs) ==
    LET hits == SelectSeq(rs, LAMBDA r : r.success)
    IN  [k \in 1..Len(hits) |-> <<hits[k].username, hits[k].password>>]

\* Variant: errors are left out of the failed count.
ReportWithoutErrors(rs) ==
    IF rs = <<>>
    THEN [kind |-> "no_results"]
    ELSE [kind |-> "report",
          total |-> Len(rs),
          successful |-> SuccessCount(rs),
          failed |-> Cardinality({k \in 1..Len(rs) :
                        ~rs[k].success /\ rs[k].error = None}),
          rate |-> RateTenths(SuccessCount(rs), Len(rs)),
          pairs |-> SuccessfulPairs(rs)]

\* Variant: the successful pairs are printed sorted by position from the end.
ReportNewestFirst(rs) ==
    IF rs = <<>>
    THEN [kind |-> "no_results"]
    ELSE [kind |-> "report",
          total |-> Len(rs),
          successful |-> SuccessCount(rs),
          failed |-> Len(rs) - SuccessCount(rs),
          rate |-> RateTenths(SuccessCount(rs), Len(rs)),
          pairs |-> [k \in 1..Len(SuccessfulPairs(rs)) |->
                        SuccessfulPairs(rs)[Len(SuccessfulPairs(rs)) + 1 - k]]]

generate_report(rs) ==
    IF rs = <<>>
    THEN [kind |-> "no_results"]     \* "No results to report", then return
    ELSE [kind |-> "report",
          total |-> Len(rs),
          successful |-> SuccessCount(rs),
          failed |-> Len(rs) - SuccessCount(rs),
          rate |-> RateTenths(SuccessCount(rs), Len(rs)),
          pairs |-> SuccessfulPairs(rs)]

\* main: tester.generate_report(results)
GenerateReport ==
    /\ pc = "returned"
    /\ report' = Some(generate_report(returned[1]))
    /\ pc' = "reported"
    /\ UNCHANGED <<usernames, passwords, parallel, cfg, endpoint,
                   test_combinations, i, results, queue, inflight, future,
                   snapshot, notified, collected, served, sleeps, returned,
                   historyVars, output, saved>>

(***************************************************************************)
(* LoginTester.save_results                                                *)
(***************************************************************************)
\* A file name is modelled by its parts between the dots: "out.JSON" is
\* <<"out", "JSON">>, so output_file.split('.') is the name itself.
Lower(w) == CASE w = "JSON" -> "json" [] w = "CSV" -> "csv" [] OTHER -> w

FileExtension(name) == Lower(name[Len(name)])

\* The keys of a result dict in insertion order.
FieldOrder ==
    <<"username", "password", "success", "status_code", "response_time",
      "error", "response_length">>

Keys(r) == SelectSeq(FieldOrder, LAMBDA f : f \in DOMAIN r)

\* The text the csv writer puts in a cell: None gives the empty string,
\* everything else its str().
CellText(f, r) ==
    CASE f \in {"username", "password"} -> r[f]
      [] f = "success" -> IF r[f] THEN "True" ELSE "False"
      [] f = "status_code" -> IF r[f] = None THEN "" ELSE ToString(r[f][1])
      [] f \in {"response_time", "error"} -> IF r[f] = None THEN "" ELSE r[f][1]
      [] f = "response_length" -> ToString(r[f])

\* DictWriter._dict_to_list: a key missing from the row gives the empty
\* string (restval).
CsvRow(header, r) ==
    [c \in 1..Len(header) |->
        IF header[c] \in DOMAIN r THEN CellText(header[c], r) ELSE ""]

Range(seq) == {seq[k] : k \in 1..Len(seq)}

\* The rows writerows writes: it stops at the first dict that has a key the
\* header lacks ("dict contains fields not in fieldnames").
FirstBadRow(header, rs) ==
    LET bad == {k \in 1..Len(rs) : ~(DOMAIN rs[k] \subseteq Range(header))}
    IN  IF bad = {} THEN 0 ELSE CHOOSE k \in bad : \A m \in bad : k <= m

WriteCsv(rs) ==
    LET header == Keys(rs[1])
        stop == FirstBadRow(header, rs)
        last == IF stop = 0 THEN Len(rs) ELSE stop - 1
    IN  [raised |-> stop # 0,
         file |-> Some([format |-> "csv", header |-> header,
                        rows |-> [k \in 1..last |-> CsvRow(header, rs[k])]])]

\* Variant: the file is opened before the format is looked at.
SaveOpensFileFirst(rs, name) ==
    IF FileExtension(name) = "json"
    THEN [raised |-> FALSE, file |-> Some([format |-> "json", records |-> rs])]
    ELSE IF FileExtension(name) = "csv"
    THEN IF rs = <<>>
         THEN [raised |-> FALSE, file |-> None]
         ELSE WriteCsv(rs)
    ELSE [raised |-> TRUE, file |-> Some([format |-> "unknown"])]

save_results(rs, name) ==
    IF FileExtension(name) = "json"
    THEN [raised |-> FALSE, file |-> Some([format |-> "json", records |-> rs])]
    ELSE IF FileExtension(name) = "csv"
    THEN IF rs = <<>>
         THEN [raised |-> FALSE, file |-> None]    \* "No results to save"
         ELSE WriteCsv(rs)
    ELSE [raised |-> TRUE, file |-> None]          \* ValueError, nothing opened

\* The values of --output: absent, or a file name.
OutputArgs ==
    {None, Some(<<"out", "JSON">>), Some(<<"out", "csv">>), Some(<<"out", "txt">>)}

\* main: if args.output: tester.save_results(results, args.output)
SaveResults ==
    /\ pc = "reported"
    /\ \E o \in OutputArgs :
         /\ output' = o
         /\ IF o = None
            THEN /\ saved' = None
                 /\ pc' = "done"
            ELSE /\ saved' = Some(save_results(returned[1], o[1]))
                 /\ pc' = IF save_results(returned[1], o[1]).raised
                          THEN "save_raised"
                          ELSE "done"
    /\ UNCHANGED <<usernames, passwords, parallel, cfg, endpoint,
                   test_combinations, i, results, queue, inflight, future,
                   snapshot, notified, collected, served, sleeps, returned,
                   historyVars, report>>

Next ==
    \/ Main
    \/ RunTests
    \/ SeqCall
    \/ SeqComplete
    \/ SeqSleep
    \/ SeqReturn
    \/ Submit
    \/ WorkerStart
    \/ WorkerFinish
    \/ AsCompleted
    \/ CollectFinished
    \/ CollectNotified
    \/ ParReturn

Spec == Init /\ [][Next]_vars

\* One sequential attempt against every response, under every configuration.
NextClassifier ==
    \/ Main
    \/ RunTests
    \/ SeqCall
    \/ SeqComplete
    \/ SeqReturn

SpecClassifier == InitClassifier /\ [][NextClassifier]_vars

\* main as a whole: the run in either mode, then the report and the saving
\* of the results.
InitSave == Init

NextSave ==
    \/ Next
    \/ GenerateReport
    \/ SaveResults

SpecSave == InitSave /\ [][NextSave]_vars

\* run_tests when every call ends with a response or a transport failure,
\* the main thread keeps running and the pool's workers are scheduled fairly.
InitLive ==
    /\ usernames \in UsernameLists
    /\ passwords \in PasswordLists
    /\ Len(usernames) * Len(passwords) <= MaxPairs
    /\ parallel \in BOOLEAN
    /\ cfg \in RunConfigs
    /\ endpoint = RunEndpoint \ {Fault("internal")}
    /\ InitRun

Fairness ==
    /\ WF_vars(RunTests)
    /\ WF_vars(SeqCall) /\ WF_vars(SeqComplete)
    /\ WF_vars(SeqSleep) /\ WF_vars(SeqReturn)
    /\ WF_vars(Submit) /\ WF_vars(AsCompleted)
    /\ WF_vars(WorkerStart) /\ WF_vars(WorkerFinish)
    /\ WF_vars(CollectFinished) /\ WF_vars(CollectNotified)
    /\ WF_vars(ParReturn)

SpecLive == InitLive /\ [][Next]_vars /\ Fairness

\* generate_report and save_results on every list of result records, the
\* empty one included: run_tests has just returned it.
MaxResults == 3

ResultRecords ==
    {test_login(cfg0, "alice", p, b).value :
        cfg0 \in RunConfigs, p \in Passwords, b \in RunEndpoint \ {Fault("internal")}}
    \cup {FallbackResult("alice", p, "internal") : p \in Passwords}

InitReport ==
    /\ results \in UNION {[1..k -> ResultRecords] : k \in 0..MaxResults}
    /\ usernames = <<"alice">>
    /\ passwords = [k \in 1..Len(results) |-> results[k].password]
    /\ test_combinations = Combinations(usernames, passwords)
    /\ parallel = TRUE
    /\ cfg \in {c \in RunConfigs : c.max_workers = 1}
    /\ endpoint = RunEndpoint
    /\ pc = "returned"
    /\ returned = Some(results)
    /\ i = 1
    /\ queue = <<>>
    /\ inflight = {}
    /\ future = <<>>
    /\ snapshot = {}
    /\ notified = <<>>
    /\ collected = <<>>
    /\ served = <<>>
    /\ sleeps = 0
    /\ calls = <<>>
    /\ lateOrder = <<>>
    /\ entered = {}
    /\ report = None
    /\ output = None
    /\ saved = None

NextReport ==
    \/ GenerateReport
    \/ SaveResults

SpecReport == InitReport /\ [][NextReport]_vars

(***************************************************************************)
(* Vocabulary of the properties.                                           *)
(***************************************************************************)
\* What the endpoint did for the attempt whose record is results[k].
ServedAt(k) == served[collected[k]][1]

\* No attempt so far ended in an exception other than a transport failure.
NoFaultServed ==
    \A j \in DOMAIN served : served[j] = None \/ served[j][1].kind # "fault"

Occurrences(x, seq) == Cardinality({k \in 1..Len(seq) : seq[k] = x})

\* Number of records of rs that carry the pair (u, p).
Outcomes(u, p, rs) ==
    Cardinality({k \in 1..Len(rs) : rs[k].username = u /\ rs[k].password = p})

\* rs holds, for every pair, as many outcomes as the lists enumerate it.
OneOutcomePerPair(rs) ==
    /\ Len(rs) = Len(usernames) * Len(passwords)
    /\ \A u \in Users, p \in Passwords :
         Outcomes(u, p, rs) = Occurrences(u, usernames) * Occurrences(p, passwords)

HasError(r) == "error" \in DOMAIN r /\ r.error # None
HasStatus(r) == "status_code" \in DOMAIN r /\ r.status_code # None

(***************************************************************************)
(* C1: when every attempt ends with a response or a transport failure,     *)
(* run_tests returns, in both modes, exactly |usernames| x |passwords|     *)
(* outcomes, and every (username, password) pair occurs in them exactly as *)
(* often as the Cartesian product of the two lists (duplicates included)   *)
(* enumerates it.                                                          *)
(***************************************************************************)
C1_OneOutcomePerEnumeratedPair ==
    NoFaultServed =>
        /\ pc # "raised"
        /\ pc = "returned" => OneOutcomePerPair(returned[1])

\* A concurrent run over a username list with a duplicate has returned, one
\* of its attempts having failed in transport.
C1_Witness ==
    /\ pc = "returned"
    /\ parallel
    /\ NoFaultServed
    /\ usernames = <<"alice", "alice">>
    /\ Len(passwords) = 2
    /\ \E j \in 1..N : served[j][1].kind = "transport"

(***************************************************************************)
(* C2: in either mode no attempt failure is fatal: whatever an attempt     *)
(* ends with (a response, a transport failure, any other exception), no    *)
(* exception leaves run_tests, and the returned sequence holds exactly one *)
(* outcome per enumerated pair.                                            *)
(***************************************************************************)
C2_NoAttemptFailureIsFatal ==
    /\ pc # "raised"
    /\ pc = "returned" => OneOutcomePerPair(returned[1])

(***************************************************************************)
(* C3: in concurrent mode the number of attempts whose network call is in  *)
(* flight never exceeds max_workers.                                       *)
(***************************************************************************)
C3_InFlightAtMostMaxWorkers ==
    parallel => Cardinality(inflight) <= cfg.max_workers

\* The cap is reached while submitted attempts are still waiting.
C3_Witness ==
    /\ parallel
    /\ cfg.max_workers = 2
    /\ Cardinality(inflight) = 2
    /\ queue # <<>>

\* Attempt j has exactly one record in the results so far.
CollectedOnce(j) == Occurrences(j, collected) = 1

\* results[k] is what attempt collected[k] alone determines: its own pair, and
\* the status, verdict and error of what the endpoint did for it.
OwnOutcome(k) ==
    LET r == results[k]
        b == ServedAt(k)
    IN  /\ r.username = Pair(collected[k])[1]
        /\ r.password = Pair(collected[k])[2]
        /\ b.kind = "response" =>
             /\ r.status_code = Some(b.status_code)
             /\ r.success = is_successful_login(cfg, b)
             /\ ~HasError(r)
        /\ b.kind # "response" =>
             /\ r.success = FALSE
             /\ r.error = Some(b.msg)
             /\ ~HasStatus(r)

(***************************************************************************)
(* C4: in concurrent mode an attempt that ends in an unexpected exception  *)
(* is recorded as an error outcome (success false, error text set) of its  *)
(* own pair; the run is not aborted, and every other attempt keeps exactly *)
(* the outcome its own call produced, whenever it finished.                *)
(***************************************************************************)
C4_FaultCapturedForItsPairOnly ==
    parallel =>
        /\ pc # "raised"
        /\ Len(results) = Len(collected)
        /\ \A k \in 1..Len(results) :
             /\ OwnOutcome(k)
             /\ ServedAt(k).kind = "fault" =>
                  /\ results[k].success = FALSE
                  /\ HasError(results[k])
        /\ pc = "returned" =>
             /\ returned = Some(results)
             /\ \A j \in 1..N : CollectedOnce(j)

\* A concurrent run has returned with a captured exception between the
\* outcomes of two attempts that got a response.
C4_Witness ==
    /\ parallel
    /\ pc = "returned"
    /\ \E k \in 2..(Len(results) - 1) :
         /\ ServedAt(k).kind = "fault"
         /\ ServedAt(k - 1).kind = "response"
         /\ ServedAt(k + 1).kind = "response"
         /\ results[k + 1].success

(***************************************************************************)
(* C5: in sequential mode the outcome at position k (0-based) belongs to   *)
(* the pair (usernames[k div |passwords|], passwords[k mod |passwords|]),  *)
(* the returned sequence is that enumeration in full, and attempt k+1 is   *)
(* not started before attempt k has finished: at most one in flight.       *)
(***************************************************************************)
C5_SequentialIsUsernameMajor ==
    ~parallel =>
        /\ \A k \in 0..(Len(results) - 1) :
             /\ results[k + 1].username = usernames[(k \div Len(passwords)) + 1]
             /\ results[k + 1].password = passwords[(k % Len(passwords)) + 1]
        /\ inflight \subseteq {Len(results) + 1}
        /\ pc = "returned" =>
             /\ returned = Some(results)
             /\ Len(results) = Len(usernames) * Len(passwords)

\* A sequential run over two distinct usernames and two distinct passwords
\* has returned.
C5_Witness ==
    /\ ~parallel
    /\ pc = "returned"
    /\ usernames = <<"alice", "bob">>
    /\ passwords = <<"pw1", "pw2">>

(***************************************************************************)
(* C6: in sequential mode with n attempts the delay is applied n-1 times:  *)
(* once after each attempt but the last, whatever that attempt ended with, *)
(* and before the next one is dispatched; never before the first attempt   *)
(* and never after the last.                                               *)
(***************************************************************************)
C6_DelayBetweenAttemptsOnly ==
    ~parallel =>
        /\ pc = "seq_call" => sleeps = i - 1 /\ Len(results) = i - 1
        /\ pc = "seq_sleep" => i < N /\ sleeps = i - 1 /\ Len(results) = i
        /\ pc = "returned" => sleeps = N - 1
        /\ pc \in {"main", "run_tests"} => sleeps = 0

\* A sequential run of four attempts has returned after three delays, one of
\* them following an attempt that failed in transport.
C6_Witness ==
    /\ ~parallel
    /\ pc = "returned"
    /\ N = 4
    /\ sleeps = 3
    /\ ServedAt(2).kind = "transport"

(***************************************************************************)
(* Vocabulary of the classifier's properties, stated without the           *)
(* classifier's own helpers.                                               *)
(***************************************************************************)
\* An indicator is configured: it was given and is not the empty string.
Configured(ind) == ind # None /\ Len(ind[1]) > 0

\* The text carries the indicator: text = before + indicator + after.
Carries(text, ind) ==
    \E before \in 0..Len(text) :
        /\ before + Len(ind[1]) <= Len(text)
        /\ \A m \in 1..Len(ind[1]) : text[before + m] = ind[1][m]

SuccessRuleMatches(b) ==
    Configured(cfg.success_indicator) /\ Carries(b.text, cfg.success_indicator)

FailureRuleMatches(b) ==
    Configured(cfg.failure_indicator) /\ Carries(b.text, cfg.failure_indicator)

(***************************************************************************)
(* C7: the classifier's rules apply in first-match order.  When a success  *)
(* indicator is configured and occurs in the body the verdict is Success,  *)
(* for every status code and also when a configured failure indicator      *)
(* occurs in the body too; the failure indicator gives Failure only when   *)
(* the success rule did not match, and then also for status 200.           *)
(***************************************************************************)
C7_IndicatorsInFirstMatchOrder ==
    \A k \in 1..Len(results) :
        ServedAt(k).kind = "response" =>
            /\ SuccessRuleMatches(ServedAt(k)) => results[k].success = TRUE
            /\ (~SuccessRuleMatches(ServedAt(k)) /\ FailureRuleMatches(ServedAt(k)))
                  => results[k].success = FALSE

\* A 403 response whose body carries both configured indicators was
\* classified.
C7_Witness ==
    /\ Len(results) = 1
    /\ ServedAt(1).kind = "response"
    /\ ServedAt(1).status_code = 403
    /\ SuccessRuleMatches(ServedAt(1))
    /\ FailureRuleMatches(ServedAt(1))
    /\ cfg.success_indicator # cfg.failure_indicator
    /\ results[1].success

(***************************************************************************)
(* C8: with no indicator configured, or when no configured indicator       *)
(* occurs in the body, the verdict is Success if and only if the status    *)
(* code is exactly 200.                                                    *)
(***************************************************************************)
C8_StatusCodeFallback ==
    \A k \in 1..Len(results) :
        (/\ ServedAt(k).kind = "response"
         /\ ~SuccessRuleMatches(ServedAt(k))
         /\ ~FailureRuleMatches(ServedAt(k)))
            => (results[k].success <=> ServedAt(k).status_code = 200)

\* A 204 response that carries neither of the two configured indicators was
\* classified as a failure.
C8_Witness ==
    /\ Len(results) = 1
    /\ ServedAt(1).kind = "response"
    /\ ServedAt(1).status_code = 204
    /\ Configured(cfg.success_indicator)
    /\ Configured(cfg.failure_indicator)
    /\ ~SuccessRuleMatches(ServedAt(1))
    /\ ~FailureRuleMatches(ServedAt(1))
    /\ ~results[1].success

(***************************************************************************)
(* C9: every outcome record of a run, in either mode and on every path,    *)
(* has an error detail exactly when the attempt ended in an error (a       *)
(* transport failure or a captured exception), has a status code exactly   *)
(* when the transport call completed, and, when marked successful, has a   *)
(* status code and no error detail.                                        *)
(***************************************************************************)
C9_RecordFieldsMatchOutcome ==
    \A k \in 1..Len(results) :
        /\ HasError(results[k]) <=> ServedAt(k).kind \in {"transport", "fault"}
        /\ HasStatus(results[k]) <=> ServedAt(k).kind = "response"
        /\ results[k].success => HasStatus(results[k]) /\ ~HasError(results[k])

\* The results hold a successful record, a transport-error record and the
\* record of a captured exception.
C9_Witness ==
    /\ \E k \in 1..Len(results) : results[k].success
    /\ \E k \in 1..Len(results) : ServedAt(k).kind = "transport"
    /\ \E k \in 1..Len(results) : ServedAt(k).kind = "fault"

(***************************************************************************)
(* C10: in either mode, when the transport fails for some pairs only, each *)
(* failing pair gets an error outcome with the error detail set and no     *)
(* status code, and every other pair gets the verdict and status code of   *)
(* its own response, as in a run without any transport failure; the run    *)
(* completes with one outcome per attempt.                                 *)
(***************************************************************************)
C10_TransportFailureIsLocal ==
    NoFaultServed =>
        /\ pc # "raised"
        /\ \A k \in 1..Len(results) :
             LET r == results[k]
                 b == ServedAt(k)
             IN  /\ <<r.username, r.password>> = Pair(collected[k])
                 /\ b.kind = "transport" =>
                      /\ ~r.success
                      /\ HasError(r)
                      /\ r.status_code = None
                 /\ b.kind = "response" =>
                      /\ r.success = is_successful_login(cfg, b)
                      /\ r.status_code = Some(b.status_code)
        /\ pc = "returned" => \A j \in 1..N : CollectedOnce(j)

\* A run has returned in which an attempt that failed in transport is
\* followed by one classified as a success and by one classified as a failure.
C10_Witness ==
    /\ pc = "returned"
    /\ NoFaultServed
    /\ Len(results) >= 3
    /\ ServedAt(1).kind = "transport"
    /\ \E k \in 2..Len(results) : results[k].success
    /\ \E k \in 2..Len(results) : ServedAt(k).kind = "response" /\ ~results[k].success

\* What a record says of its attempt: pair, verdict, status code.
Outcome(r) ==
    <<r.username, r.password, r.success,
      IF HasStatus(r) THEN r.status_code ELSE None>>

\* What the endpoint's behaviour for attempt j determines, in whatever mode
\* and order the attempt is made.
ExpectedOutcome(j) ==
    LET b == served[j][1]
    IN  IF b.kind = "response"
        THEN <<Pair(j)[1], Pair(j)[2], is_successful_login(cfg, b),
               Some(b.status_code)>>
        ELSE <<Pair(j)[1], Pair(j)[2], FALSE, None>>

\* rs holds every expected outcome as often as the attempts produce it.
SameOutcomes(rs) ==
    /\ Len(rs) = N
    /\ LET got == [k \in 1..N |-> Outcome(rs[k])]
           expected == [j \in 1..N |-> ExpectedOutcome(j)]
       IN  \A k \in 1..N :
             Cardinality({m \in 1..N : got[m] = got[k]})
               = Cardinality({j \in 1..N : expected[j] = got[k]})

\* The report of rs has the totals and the successful pairs that the
\* expected outcomes have.
SameAggregate(rs) ==
    LET hits == {j \in 1..N : ExpectedOutcome(j)[3]}
        rep == generate_report(rs)
    IN  /\ rep.total = N
        /\ rep.successful = Cardinality(hits)
        /\ rep.failed = N - Cardinality(hits)
        /\ Range(rep.pairs) = {Pair(j) : j \in hits}

(***************************************************************************)
(* C11: for the same lists and the same behaviour of the endpoint for each *)
(* pair (a response or a transport failure), a run returns in either mode, *)
(* and whatever the completion order of a concurrent run, what it returns  *)
(* has the aggregate the behaviours determine: the same multiset of        *)
(* (username, password, verdict, status code) outcomes, the same total,    *)
(* succeeded and failed counts and the same set of successful pairs as the *)
(* sequential run, which holds them in enumeration order. Only the order   *)
(* of the records depends on the mode.                                     *)
(***************************************************************************)
C11_SameAggregateInEveryModeAndOrder ==
    /\ NoFaultServed => pc # "raised"
    /\ pc = "returned" =>
         /\ SameOutcomes(returned[1])
         /\ SameAggregate(returned[1])
         /\ ~parallel => \A k \in 1..N : Outcome(returned[1][k]) = ExpectedOutcome(k)

\* A concurrent run over four pairs has returned the outcome of the last
\* pair first; a success, a failure and a transport error are among them.
C11_Witness ==
    /\ parallel
    /\ pc = "returned"
    /\ N = 4
    /\ collected[1] = 4
    /\ NoFaultServed
    /\ \E j \in 1..N : ExpectedOutcome(j)[3]
    /\ \E j \in 1..N : served[j][1].kind = "response" /\ ~ExpectedOutcome(j)[3]
    /\ \E j \in 1..N : served[j][1].kind = "transport"

\* The three kinds of outcome a record can state.
IsSuccess(r) == r.success
IsError(r) == ~r.success /\ HasError(r)
IsFailure(r) == ~r.success /\ ~HasError(r)

CountOf(rs, Is(_)) == Cardinality({k \in 1..Len(rs) : Is(rs[k])})

\* rate, in tenths of a percent, is successful / total to the nearest tenth.
IsRateOf(rate, successful, total) ==
    /\ 2 * (rate * total - 1000 * successful) <= total
    /\ 2 * (1000 * successful - rate * total) <= total

(***************************************************************************)
(* C12: for every result sequence the report counts as succeeded the       *)
(* records whose outcome is a success and as failed all the others,        *)
(* failures and errors alike, so that succeeded + failed = total; for a    *)
(* total above 0 the success rate is succeeded / total, and for an empty   *)
(* sequence the report returns before any count or division is made.       *)
(***************************************************************************)
C12_ReportCountsAndRate ==
    report # None =>
        LET rs == returned[1]
            rep == report[1]
        IN  /\ rs = <<>> => rep = [kind |-> "no_results"]
            /\ rs # <<>> =>
                 /\ rep.kind = "report"
                 /\ rep.total = Len(rs)
                 /\ rep.successful = CountOf(rs, IsSuccess)
                 /\ rep.failed = CountOf(rs, IsFailure) + CountOf(rs, IsError)
                 /\ rep.successful + rep.failed = rep.total
                 /\ IsRateOf(rep.rate, rep.successful, rep.total)

\* A report of three records: a success, a failure and an error (33.3%).
C12_Witness ==
    /\ report # None
    /\ Len(returned[1]) = 3
    /\ CountOf(returned[1], IsSuccess) = 1
    /\ CountOf(returned[1], IsFailure) = 1
    /\ CountOf(returned[1], IsError) = 1
    /\ report[1].rate = 333

\* Reading a csv file back (csv.DictReader): one dict per row, from the
\* names of the header row to the cells of the row.
ColumnOf(f, header) == CHOOSE c \in 1..Len(header) : header[c] = f

ReadCsv(file) ==
    [k \in 1..Len(file.rows) |->
        [f \in Range(file.header) |-> file.rows[k][ColumnOf(f, file.header)]]]

\* back holds, in the same order, every field of every record of rs as text.
RoundTrips(rs, back) ==
    /\ Len(back) = Len(rs)
    /\ \A k \in 1..Len(rs) : \A f \in DOMAIN rs[k] :
         /\ f \in DOMAIN back[k]
         /\ back[k][f] = CellText(f, rs[k])

SavedAsCsv ==
    /\ saved # None
    /\ FileExtension(output[1]) = "csv"
    /\ returned[1] # <<>>

(***************************************************************************)
(* C13: saving the outcomes of any run (responses, transport errors and    *)
(* captured faults, in any mix and order) as CSV succeeds, and reading the *)
(* file back gives one row per outcome, in the order written, with the     *)
(* text of every field of every outcome.                                   *)
(***************************************************************************)
C13_CsvRoundTrip ==
    SavedAsCsv =>
        /\ ~saved[1].raised
        /\ saved[1].file # None
        /\ RoundTrips(returned[1], ReadCsv(saved[1].file[1]))

(***************************************************************************)
(* C14: in concurrent mode, when run_tests returns, every submitted        *)
(* attempt has finished and its outcome is in the returned sequence: no    *)
(* attempt is still queued or in flight, and no finished attempt is        *)
(* missing from the result.                                                *)
(***************************************************************************)
C14_AllAttemptsAwaited ==
    (parallel /\ pc = "returned") =>
        /\ queue = <<>>
        /\ inflight = {}
        /\ snapshot = {} /\ notified = <<>>
        /\ \A j \in 1..N : future[j] # None /\ CollectedOnce(j)
        /\ Len(returned[1]) = N
        /\ \A k \in 1..N : returned[1][k] = results[k] /\ OwnOutcome(k)

\* run_tests returns in concurrent mode after attempts had to wait for a
\* worker and the last one finished while the others were being collected.
C14_Witness ==
    /\ parallel
    /\ pc = "returned"
    /\ N = 4
    /\ cfg.max_workers = 1
    /\ Len(lateOrder) >= 2

\* Nothing of a run exists: no pair enumerated, no call submitted, started
\* or finished, no record, nothing returned.
NothingDispatched ==
    /\ test_combinations = <<>>
    /\ queue = <<>>
    /\ inflight = {}
    /\ calls = <<>>
    /\ served = <<>>
    /\ future = <<>>
    /\ results = <<>>
    /\ returned = None

(***************************************************************************)
(* C15: when the usernames or the passwords resolved from the arguments    *)
(* and the files are empty, the program stops with a configuration error   *)
(* before run_tests is called: no attempt is dispatched and no network     *)
(* call is made.                                                           *)
(***************************************************************************)
C15_MissingCredentialsStopBeforeRun ==
    (usernames = <<>> \/ passwords = <<>>) =>
        /\ pc \in {"main", "usage_error"}
        /\ NothingDispatched

\* The program has stopped with the error: usernames were given, but no
\* password.
C15_Witness ==
    /\ pc = "usage_error"
    /\ usernames = <<"alice", "bob">>
    /\ passwords = <<>>

UnsupportedFormat == output # None /\ FileExtension(output[1]) \notin {"json", "csv"}

(***************************************************************************)
(* C16: saving with an output format other than json or csv fails with an  *)
(* unsupported-format error, and only after every attempt has completed    *)
(* and the report has been printed; the failure leaves the result sequence *)
(* in memory as it was and writes no file.                                 *)
(***************************************************************************)
C16_UnsupportedFormatFailsAfterReport ==
    UnsupportedFormat =>
        /\ pc = "save_raised"
        /\ saved = Some([raised |-> TRUE, file |-> None])
        /\ queue = <<>> /\ inflight = {}
        /\ \A j \in 1..N : served[j] # None
        /\ Len(results) = N
        /\ returned = Some(results)
        /\ report = Some(generate_report(results))
        /\ report[1].kind = "report"

\* Saving to out.txt has failed after a concurrent run of two attempts, one
\* of them a success.
C16_Witness ==
    /\ pc = "save_raised"
    /\ output = Some(<<"out", "txt">>)
    /\ parallel
    /\ N = 2
    /\ report[1].successful = 1

\* Position of attempt j in a sequence of attempts that holds it once.
Pos(j, seq) == CHOOSE k \in 1..Len(seq) : seq[k] = j

\* Attempt a finished before attempt b, as far as the program can tell:
\* both after as_completed was entered, in that order, or a before the
\* entry and b after it. Of two attempts that had both finished on entry
\* as_completed knows no order.
FinishedBefore(a, b) ==
    \/ a \in entered /\ b \notin entered
    \/ /\ a \notin entered /\ b \notin entered
       /\ Pos(a, lateOrder) < Pos(b, lateOrder)

\* The indices of the successful records of rs, and the m-th of them.
Hits(rs) == {k \in 1..Len(rs) : rs[k].success}
NthHit(rs, m) ==
    CHOOSE k \in Hits(rs) : Cardinality({h \in Hits(rs) : h <= k}) = m

(***************************************************************************)
(* C17: in concurrent mode the records are in the order in which the       *)
(* attempts were collected as they completed, whatever their enumeration   *)
(* positions: the k-th record is the outcome of the k-th collected         *)
(* attempt, an attempt that finished and was collected before another has  *)
(* its record before the other's, and attempts that finish while the       *)
(* collection is waiting are collected in the order they finish. The       *)
(* report lists the successful pairs in the order of their records.        *)
(***************************************************************************)
C17_ConcurrentResultsInCompletionOrder ==
    parallel =>
        /\ Len(results) = Len(collected)
        /\ \A k \in 1..Len(results) :
             <<results[k].username, results[k].password>> = Pair(collected[k])
        /\ \A m \in 2..Len(collected) : \A k \in 1..(m - 1) :
             ~FinishedBefore(collected[m], collected[k])
        /\ report # None =>
             /\ Len(report[1].pairs) = Cardinality(Hits(results))
             /\ \A m \in 1..Len(report[1].pairs) :
                  report[1].pairs[m] = Pair(collected[NthHit(results, m)])

\* The report of a concurrent run lists two successful pairs against their
\* enumeration order: the later pair finished and was collected first.
C17_Witness ==
    /\ parallel
    /\ pc = "reported"
    /\ Len(report[1].pairs) = 2
    /\ \E k, m \in 1..Len(collected) :
         /\ k < m
         /\ collected[k] > collected[m]
         /\ FinishedBefore(collected[k], collected[m])
         /\ results[k].success /\ results[m].success
         /\ Pair(collected[k]) # Pair(collected[m])

\* The number of calls made so far for the attempts 1..n.
RECURSIVE TotalCalls(_)
TotalCalls(n) == IF n = 0 THEN 0 ELSE calls[n] + TotalCalls(n - 1)

(***************************************************************************)
(* C18: in either mode every enumerated pair causes exactly one invocation *)
(* of test_login and one network call over the run: no attempt is made a   *)
(* second time, whatever it ended with, and when the run returns the       *)
(* number of calls made is |usernames| x |passwords|.                      *)
(***************************************************************************)
C18_OneCallPerPair ==
    /\ \A j \in DOMAIN calls :
         /\ calls[j] <= 1
         /\ (served[j] # None \/ j \in inflight) => calls[j] = 1
    /\ returned # None =>
         /\ \A j \in 1..N : calls[j] = 1
         /\ TotalCalls(N) = Len(usernames) * Len(passwords)

\* A sequential run over four pairs has returned although an attempt got a
\* failure verdict and another failed in transport.
C18_Witness ==
    /\ ~parallel
    /\ pc = "returned"
    /\ N = 4
    /\ \E j \in 1..N : served[j][1].kind = "transport"
    /\ \E j \in 1..N : served[j][1].kind = "response" /\ ~ExpectedOutcome(j)[3]

(***************************************************************************)
(* C19: when every network call ends, with a response or a transport       *)
(* failure, and the workers are scheduled fairly, a run that has entered   *)
(* run_tests eventually returns, in either mode and for every max_workers  *)
(* from 1 up: the run never waits forever with attempts still pending.     *)
(***************************************************************************)
C19_RunEventuallyReturns == (pc = "run_tests") ~> (returned # None)

\* A concurrent run of four attempts on a single worker has returned.
C19_Witness ==
    /\ parallel
    /\ cfg.max_workers = 1
    /\ N = 4
    /\ returned # None
    /\ \A j \in 1..N : served[j] # None

\* The empty string given as an indicator.
EmptyIndicator == Some(<<>>)

(***************************************************************************)
(* C20: an indicator given as the empty string counts as not configured,   *)
(* although the empty string occurs in every body.  With the success       *)
(* indicator "" the success rule never matches: the verdict is Failure     *)
(* when the failure rule matches and otherwise follows the status code.    *)
(* With the failure indicator "" the failure rule never matches: unless    *)
(* the success rule matches, the verdict follows the status code.          *)
(***************************************************************************)
C20_EmptyIndicatorIsNotConfigured ==
    \A k \in 1..Len(results) :
        ServedAt(k).kind = "response" =>
            /\ IsSubstring(<<>>, ServedAt(k).text)
            /\ cfg.success_indicator = EmptyIndicator =>
                 results[k].success =
                    IF FailureRuleMatches(ServedAt(k))
                    THEN FALSE
                    ELSE ServedAt(k).status_code = StatusOK
            /\ (cfg.failure_indicator = EmptyIndicator
                  /\ ~SuccessRuleMatches(ServedAt(k))) =>
                 results[k].success = (ServedAt(k).status_code = StatusOK)

\* With both indicators "" a 403 response was classified as a failure and
\* its record is in the results.
C20_Witness ==
    /\ Len(results) = 1
    /\ cfg.success_indicator = EmptyIndicator
    /\ cfg.failure_indicator = EmptyIndicator
    /\ ServedAt(1).kind = "response"
    /\ ServedAt(1).status_code = 403
    /\ ServedAt(1).text # <<>>
    /\ ~results[1].success

====
